---- MODULE Spec2Model ----
(***************************************************************************)
(* RetreivalAugmentedGenerationPipeline.process_query                      *)
(* (src/wikidatachat/rag.py): primary vector-store retrieval, the fallback *)
(* retrieval over freshly fetched Wikidata statements, prompt building and *)
(* answer generation.  One pipeline object serves a sequence of calls.     *)
(*                                                                         *)
(* Python dicts are sets of <<key, value>> pairs; a missing key is a       *)
(* KeyError.  The field fetched_in of a statement or document and the      *)
(* variables trace, primary_outcome, llm_input and fetched_log are history *)
(* variables: they record what happened, the program does not read them.   *)
(***************************************************************************)
EXTENDS Integers, Sequences, FiniteSets

\* ---------------------------------------------------------------- bounds
MaxCalls == 2
MaxTopK == 2
MaxStatements == 2
MaxReplies == 2

\* ---------------------------------------------------------------- inputs
Queries == {"q1", "q2"}
TopKs == 1..MaxTopK
StatementTexts == {"s1", "s2"}
ReplyTexts == {"r1", "r2"}

\* What the hosted vector store can hand back: (document, relevance score)
\* pairs; the third one carries no 'QID' metadata.
ResultPool ==
    { <<[page_content |-> "a", metadata |-> {<<"QID", "Q1">>}], 2>>,
      <<[page_content |-> "b", metadata |-> {<<"QID", "Q2">>}], 1>>,
      <<[page_content |-> "c", metadata |-> {<<"source", "x">>}], 1>> }

NoAnswer == [data |-> "none", query |-> "none", documents |-> <<>>]

\* ---------------------------------------------------------------- helpers
Range(s) == { s[i] : i \in 1..Len(s) }

Injective(s) == \A i, j \in 1..Len(s) : i # j => s[i] # s[j]

SeqsUpTo(S, n) == UNION { [1..m -> S] : m \in 0..n }

HasKey(dict, key) == \E kv \in dict : kv[1] = key

Get(dict, key) == (CHOOSE kv \in dict : kv[1] = key)[2]

Abs(x) == IF x < 0 THEN -x ELSE x

\* ---------------------------------------------------------------- state
VARIABLES
    pc,                 \* position of the current call in process_query
    calls,              \* number of process_query calls started
    query, top_k,       \* arguments of the current call
    results,            \* local: raw primary results
    retriever_results,  \* local: the retrieved documents
    query_embedding,    \* local
    wikidata_statements,\* local
    document_store,     \* the store behind the local retriever
    prompt,             \* local: rendered user prompt
    response,           \* local: the replies of the language model
    answer_build,       \* local: the answers of the AnswerBuilder
    returned,           \* the value returned by the last finished call
    trace,              \* history: collaborator invocations of this call
    primary_outcome,    \* history: how the primary stage of this call ended
    llm_input,          \* history: the prompt the language model received
    fetched_log         \* history: every statement fetched so far

vars == <<pc, calls, query, top_k, results, retriever_results,
          query_embedding, wikidata_statements, document_store, prompt,
          response, answer_build, returned, trace, primary_outcome,
          llm_input, fetched_log>>

locals == <<results, retriever_results, query_embedding,
            wikidata_statements, document_store, prompt, response,
            answer_build>>

\* ---------------------------------------------------------------- collaborators
\* graph_store.similarity_search_with_relevance_scores(query, k): at most k
\* distinct results, best score first.
SimilaritySearchOutcomes(q, k) ==
    { s \in SeqsUpTo(ResultPool, k) :
        /\ Injective(s)
        /\ \A i \in 1..Len(s) - 1 : s[i][2] >= s[i + 1][2] }

\* The embedding model: a fixed map from text to a point.
Embedding(text) ==
    CASE text = "q1" -> 1
      [] text = "q2" -> 3
      [] text = "s1" -> 1
      [] text = "s2" -> 2

\* get_wikidata_statements_from_query(query, ...): a list of statements,
\* possibly empty, possibly with repetitions.
StatementLists == SeqsUpTo(StatementTexts, MaxStatements)

FetchedStatements(texts, n) ==
    [i \in 1..Len(texts) |-> [text |-> texts[i], fetched_in |-> n]]

\* setup_document_stream_from_list: a new in-memory store holding one
\* embedded document per element of dict_list, and a retriever over it.
setup_document_stream_from_list(dict_list) ==
    [i \in 1..Len(dict_list) |->
        [content |-> dict_list[i].text,
         meta |-> {},
         embedding |-> Embedding(dict_list[i].text),
         fetched_in |-> dict_list[i].fetched_in]]

Similarity(a, b) == 3 - Abs(a - b)

RECURSIVE BestFirst(_, _, _)
\* The k best documents of store for query embedding qe, best first, ties
\* in store order.
BestFirst(store, qe, k) ==
    IF k = 0 \/ Len(store) = 0 THEN <<>>
    ELSE LET best == CHOOSE i \in 1..Len(store) :
                        \A j \in 1..Len(store) :
                            \/ Similarity(qe, store[i].embedding)
                                 > Similarity(qe, store[j].embedding)
                            \/ /\ Similarity(qe, store[i].embedding)
                                    = Similarity(qe, store[j].embedding)
                               /\ i <= j
             rest == [j \in 1..Len(store) - 1 |->
                        IF j < best THEN store[j] ELSE store[j + 1]]
             d == store[best]
         IN  <<[content |-> d.content,
                score |-> Similarity(qe, d.embedding),
                meta |-> d.meta,
                fetched_in |-> d.fetched_in]>>
             \o BestFirst(rest, qe, k - 1)

\* retriever.run(query_embedding, top_k)['documents']
RetrieverRun(store, qe, k) == BestFirst(store, qe, k)

\* llm.run(messages)['replies']: at least one reply.
ReplyLists == { r \in SeqsUpTo(ReplyTexts, MaxReplies) : Len(r) >= 1 }

\* ---------------------------------------------------------------- process_query
ToDocument_mut(r) ==
    [content |-> r[1].page_content,
     score |-> r[2],
     meta |-> {<<"qid", r[1].page_content>>},
     fetched_in |-> 0]

\* Document(content=r[0].page_content, score=r[1],
\*          meta={'qid': r[0].metadata['QID']})
ToDocument(r) ==
    [content |-> r[1].page_content,
     score |-> r[2],
     meta |-> {<<"qid", Get(r[1].metadata, "QID")>>},
     fetched_in |-> 0]

\* r[0].metadata['QID'] raises KeyError for a result without that key.
Convertible(res) == \A i \in 1..Len(res) : HasKey(res[i][1].metadata, "QID")

ConvertResults_partial(res) ==
    LET ok == { n \in 0..Len(res) :
                  \A i \in 1..n : HasKey(res[i][1].metadata, "QID") }
        n == CHOOSE m \in ok : \A o \in ok : o <= m
    IN  [i \in 1..n |-> ToDocument(res[i])]

\* The list comprehension inside the try block: retriever_results is
\* assigned only if every result converts; otherwise the except clause
\* leaves it at the [] it was initialised with.
ConvertResults(res) ==
    IF Convertible(res)
    THEN [i \in 1..Len(res) |-> ToDocument(res[i])]
    ELSE <<>>

NeedsFallback_mut(rr) == Len(rr) <= 1

\* if len(retriever_results) == 0:
NeedsFallback(rr) == Len(rr) = 0

\* similarity_search_with_relevance_scores(query, k=top_k)
SearchKArg == top_k

RetrieverTopKArg_mut == top_k + 1

\* retriever.run(..., top_k=top_k, ...)
RetrieverTopKArg == top_k

RECURSIVE AsList(_)
AsList(S) ==
    IF S = {} THEN <<>>
    ELSE LET x == CHOOSE y \in S : TRUE IN <<x>> \o AsList(S \ {x})

DictListArg_mut == wikidata_statements \o AsList(fetched_log)

\* setup_document_stream_from_list(dict_list=wikidata_statements, ...)
DictListArg == wikidata_statements

ReturnedAnswer_mut(ab) == ab[Len(ab)]

\* return answer_build['answers'][0]
ReturnedAnswer(ab) == ab[1]

\* Statement order of process_query: the label that follows label p when
\* the retrieved documents are rr.
StatementOrder(p, rr) ==
    CASE p = "search" -> "convert"
      [] p = "except" -> "branch"
      [] p = "convert" -> "branch"
      [] p = "branch" -> IF NeedsFallback(rr) THEN "embed_query" ELSE "prompt"
      [] p = "embed_query" -> "fetch"
      [] p = "fetch" -> "setup"
      [] p = "setup" -> "retrieve"
      [] p = "retrieve" -> "prompt"
      [] p = "prompt" -> "llm"
      [] p = "llm" -> "answer"
      [] p = "answer" -> "return"
      [] p = "return" -> "returned"

Goto_swapped(p, rr) ==
    CASE p = "embed_query" -> "setup"
      [] p = "setup" -> "fetch"
      [] p = "fetch" -> "retrieve"
      [] OTHER -> StatementOrder(p, rr)

Goto_retry(p, rr) ==
    IF p = "retrieve" /\ Len(rr) = 0 THEN "search" ELSE StatementOrder(p, rr)

Goto_bail(p, rr) ==
    IF p = "retrieve" /\ Len(rr) = 0 THEN "returned" ELSE StatementOrder(p, rr)

\* The next statement executed after the one labelled p.
Goto(p, rr) == StatementOrder(p, rr)

NoPrompt == [question |-> "none", documents |-> <<>>]

Init ==
    /\ pc = "idle"
    /\ calls = 0
    /\ query = "none"
    /\ top_k = 1
    /\ results = <<>>
    /\ retriever_results = <<>>
    /\ query_embedding = 0
    /\ wikidata_statements = <<>>
    /\ document_store = <<>>
    /\ prompt = NoPrompt
    /\ response = <<>>
    /\ answer_build = <<>>
    /\ returned = NoAnswer
    /\ trace = <<>>
    /\ primary_outcome = "none"
    /\ llm_input = NoPrompt
    /\ fetched_log = {}

\* Entry of process_query(query, top_k): a new frame, nothing returned yet;
\* retriever_results = [].
ProcessQuery(q, k) ==
    /\ pc \in {"idle", "returned"}
    /\ calls < MaxCalls
    /\ calls' = calls + 1
    /\ query' = q
    /\ top_k' = k
    /\ results' = <<>>
    /\ retriever_results' = <<>>
    /\ query_embedding' = 0
    /\ wikidata_statements' = <<>>
    /\ document_store' = <<>>
    /\ prompt' = NoPrompt
    /\ response' = <<>>
    /\ answer_build' = <<>>
    /\ trace' = <<>>
    /\ primary_outcome' = "none"
    /\ llm_input' = NoPrompt
    /\ returned' = NoAnswer
    /\ pc' = "search"
    /\ UNCHANGED fetched_log

\* results = self.graph_store.similarity_search_with_relevance_scores(...)
SimilaritySearch ==
    /\ pc = "search"
    /\ trace' = Append(trace, "primary_search")
    /\ \/ \E res \in SimilaritySearchOutcomes(query, SearchKArg) :
            /\ results' = res
            /\ pc' = Goto("search", retriever_results)
            /\ UNCHANGED primary_outcome
       \/ /\ primary_outcome' = "search_error"
          /\ pc' = Goto("except", retriever_results)
          /\ UNCHANGED results
    /\ UNCHANGED <<calls, query, top_k, retriever_results, query_embedding,
                   wikidata_statements, document_store, prompt, response,
                   answer_build, returned, llm_input, fetched_log>>

\* retriever_results = [Document(...) for r in results], or the except clause
Convert ==
    /\ pc = "convert"
    /\ retriever_results' = ConvertResults(results)
    /\ primary_outcome' = IF Convertible(results) THEN "ok" ELSE "convert_error"
    /\ pc' = Goto("convert", retriever_results')
    /\ UNCHANGED <<calls, query, top_k, results, query_embedding,
                   wikidata_statements, document_store, prompt, response,
                   answer_build, returned, trace, llm_input, fetched_log>>

\* if len(retriever_results) == 0:
Branch ==
    /\ pc = "branch"
    /\ pc' = Goto("branch", retriever_results)
    /\ UNCHANGED <<calls, query, top_k, locals, returned, trace,
                   primary_outcome, llm_input, fetched_log>>

\* query_embedding = self.embedder.run([Document(content=query)])...
EmbedQuery ==
    /\ pc = "embed_query"
    /\ query_embedding' = Embedding(query)
    /\ trace' = Append(trace, "embed_query")
    /\ pc' = Goto("embed_query", retriever_results)
    /\ UNCHANGED <<calls, query, top_k, results, retriever_results,
                   wikidata_statements, document_store, prompt, response,
                   answer_build, returned, primary_outcome, llm_input,
                   fetched_log>>

\* wikidata_statements = get_wikidata_statements_from_query(query, ...)
FetchStatements ==
    /\ pc = "fetch"
    /\ \E texts \in StatementLists :
          /\ wikidata_statements' = FetchedStatements(texts, calls)
          /\ fetched_log' = fetched_log \cup Range(FetchedStatements(texts, calls))
    /\ trace' = Append(trace, "fetch")
    /\ pc' = Goto("fetch", retriever_results)
    /\ UNCHANGED <<calls, query, top_k, results, retriever_results,
                   query_embedding, document_store, prompt, response,
                   answer_build, returned, primary_outcome, llm_input>>

\* _, retriever = setup_document_stream_from_list(dict_list=..., ...)
SetupDocumentStream ==
    /\ pc = "setup"
    /\ document_store' = setup_document_stream_from_list(DictListArg)
    /\ trace' = Append(trace, "embed_statements")
    /\ pc' = Goto("setup", retriever_results)
    /\ UNCHANGED <<calls, query, top_k, results, retriever_results,
                   query_embedding, wikidata_statements, prompt, response,
                   answer_build, returned, primary_outcome, llm_input,
                   fetched_log>>

\* retriever_results = retriever.run(query_embedding, top_k)['documents']
RunRetriever ==
    /\ pc = "retrieve"
    /\ retriever_results' =
          RetrieverRun(document_store, query_embedding, RetrieverTopKArg)
    /\ trace' = Append(trace, "retrieve")
    /\ pc' = Goto("retrieve", retriever_results')
    /\ UNCHANGED <<calls, query, top_k, results, query_embedding,
                   wikidata_statements, document_store, prompt, response,
                   answer_build, returned, primary_outcome, llm_input,
                   fetched_log>>

\* prompt = user_prompt_builder.run(question=query,
\*                                  documents=retriever_results)['prompt']
BuildPrompt ==
    /\ pc = "prompt"
    /\ prompt' = [question |-> query, documents |-> retriever_results]
    /\ trace' = Append(trace, "prompt")
    /\ pc' = Goto("prompt", retriever_results)
    /\ UNCHANGED <<calls, query, top_k, results, retriever_results,
                   query_embedding, wikidata_statements, document_store,
                   response, answer_build, returned, primary_outcome,
                   llm_input, fetched_log>>

\* response = llm.run(messages)
RunLLM ==
    /\ pc = "llm"
    /\ llm_input' = prompt
    /\ \E replies \in ReplyLists : response' = replies
    /\ trace' = Append(trace, "llm")
    /\ pc' = Goto("llm", retriever_results)
    /\ UNCHANGED <<calls, query, top_k, results, retriever_results,
                   query_embedding, wikidata_statements, document_store,
                   prompt, answer_build, returned, primary_outcome,
                   fetched_log>>

\* answer_build = answer_builder.run(query, replies, meta, documents)
BuildAnswer ==
    /\ pc = "answer"
    /\ answer_build' = [i \in 1..Len(response) |->
                          [data |-> response[i],
                           query |-> query,
                           documents |-> retriever_results]]
    /\ pc' = Goto("answer", retriever_results)
    /\ UNCHANGED <<calls, query, top_k, results, retriever_results,
                   query_embedding, wikidata_statements, document_store,
                   prompt, response, returned, trace, primary_outcome,
                   llm_input, fetched_log>>

\* return answer_build['answers'][0]
Return ==
    /\ pc = "return"
    /\ returned' = ReturnedAnswer(answer_build)
    /\ pc' = Goto("return", retriever_results)
    /\ UNCHANGED <<calls, query, top_k, locals, trace, primary_outcome,
                   llm_input, fetched_log>>

Next ==
    \/ \E q \in Queries, k \in TopKs : ProcessQuery(q, k)
    \/ SimilaritySearch
    \/ Convert
    \/ Branch
    \/ EmbedQuery
    \/ FetchStatements
    \/ SetupDocumentStream
    \/ RunRetriever
    \/ BuildPrompt
    \/ RunLLM
    \/ BuildAnswer
    \/ Return

Spec == Init /\ [][Next]_vars

\* ---------------------------------------------------------------- properties
Count(ev) == Cardinality({ i \in 1..Len(trace) : trace[i] = ev })

Occurs(ev) == \E i \in 1..Len(trace) : trace[i] = ev

\* Position of the first occurrence of ev in trace, 0 if there is none.
Pos(ev) ==
    IF ~Occurs(ev) THEN 0
    ELSE CHOOSE i \in 1..Len(trace) :
            trace[i] = ev /\ \A j \in 1..i - 1 : trace[j] # ev

FallbackEvents == {"embed_query", "fetch", "embed_statements", "retrieve"}

RetrievalEvents ==
    {"primary_search", "embed_query", "fetch", "embed_statements", "retrieve"}

FallbackRan == \A e \in FallbackEvents : Occurs(e)

FallbackTouched == \E e \in FallbackEvents : Occurs(e)

Finished == pc = "returned"

PastPrimary == pc \notin {"idle", "search", "convert"}

PastPrompt == pc \in {"llm", "answer", "return", "returned"}

PastLLM == pc \in {"answer", "return", "returned"}

SearchSucceeded == primary_outcome \in {"ok", "convert_error"}

PrimaryFailed == primary_outcome \in {"search_error", "convert_error"}

MatchesResult(d, r) ==
    /\ d.content = r[1].page_content
    /\ d.score = r[2]
    /\ HasKey(r[1].metadata, "QID")
    /\ d.meta = {<<"qid", Get(r[1].metadata, "QID")>>}

SameAsPrimary(docs) ==
    /\ Len(docs) = Len(results)
    /\ \A i \in 1..Len(results) : MatchesResult(docs[i], results[i])

\* C1 as stated: the fallback retrieval runs if and only if the similarity
\* search raised or produced zero documents; when the search returns at
\* least one document without error, the fetcher, the embedder and the
\* local retriever are never invoked in that call.
C1_AsStated ==
    /\ Finished =>
          (FallbackRan <=> (primary_outcome = "search_error"
                              \/ Len(results) = 0))
    /\ (SearchSucceeded /\ Len(results) > 0) => ~FallbackTouched

\* C1 amended: the fallback retrieval runs if and only if the primary stage
\* (the similarity search or the conversion of its results to Documents)
\* raised or produced zero documents; when the primary stage ends without
\* error with at least one document, no fallback collaborator is invoked.
C1_FallbackIffPrimaryFailedOrEmpty ==
    /\ Finished =>
          (FallbackRan <=> (PrimaryFailed \/ Len(results) = 0))
    /\ FallbackTouched => (PrimaryFailed \/ Len(results) = 0)
    /\ (primary_outcome = "ok" /\ Len(results) > 0 /\ PastPrimary) =>
          (~FallbackTouched /\ pc # "embed_query")

C1_Witness ==
    /\ Finished
    /\ primary_outcome = "convert_error"
    /\ Len(results) > 0
    /\ FallbackRan

\* C2 as stated: when the similarity search succeeds with a non-empty
\* result list, the documents of the prompt and of the answer are exactly
\* the primary results, in order, with content, score and meta qid = QID.
C2_AsStated ==
    (Finished /\ SearchSucceeded /\ Len(results) > 0) =>
        /\ SameAsPrimary(llm_input.documents)
        /\ SameAsPrimary(returned.documents)

\* C2 amended: when the similarity search succeeds with a non-empty result
\* list every element of which carries 'QID' metadata, the documents of the
\* prompt and of the answer are exactly the primary results, one per
\* result, in order, with the result's content, score and meta qid = QID.
C2_PrimaryDocumentsUsed ==
    (primary_outcome = "ok" /\ Len(results) > 0) =>
        /\ PastPrimary => SameAsPrimary(retriever_results)
        /\ PastPrompt => SameAsPrimary(prompt.documents)
        /\ PastLLM => SameAsPrimary(llm_input.documents)
        /\ Finished => SameAsPrimary(returned.documents)

C2_Witness ==
    /\ Finished
    /\ primary_outcome = "ok"
    /\ Len(results) = 2
    /\ Len(returned.documents) = 2
    /\ returned.documents[1].meta # returned.documents[2].meta

\* C3 as stated: in the fallback path the fetcher is invoked first, then
\* the statements and the query are embedded, then the local retrieval
\* runs; no embedding happens before the fetcher has been invoked.
C3_AsStated ==
    /\ Occurs("embed_query") =>
          (Occurs("fetch") /\ Pos("fetch") < Pos("embed_query"))
    /\ Occurs("embed_statements") =>
          (Occurs("fetch") /\ Pos("fetch") < Pos("embed_statements"))
    /\ Occurs("retrieve") =>
          /\ Occurs("embed_query") /\ Pos("embed_query") < Pos("retrieve")
          /\ Occurs("embed_statements")
          /\ Pos("embed_statements") < Pos("retrieve")

\* C3 amended: in the fallback path the query is embedded first, then the
\* fetcher is invoked for the query, then the returned statements are
\* embedded, then the local retrieval runs over those embedded statements
\* with the query embedding; no statement is embedded before the fetcher
\* has been invoked.
C3_FallbackOrder ==
    /\ Occurs("fetch") =>
          (Occurs("embed_query") /\ Pos("embed_query") < Pos("fetch"))
    /\ Occurs("embed_statements") =>
          /\ Occurs("fetch") /\ Pos("fetch") < Pos("embed_statements")
          /\ Len(document_store) = Len(wikidata_statements)
          /\ \A i \in 1..Len(document_store) :
                /\ document_store[i].content = wikidata_statements[i].text
                /\ document_store[i].embedding
                      = Embedding(wikidata_statements[i].text)
    /\ Occurs("retrieve") =>
          /\ Occurs("embed_statements")
          /\ Pos("embed_statements") < Pos("retrieve")
          /\ query_embedding = Embedding(query)
          /\ \A i \in 1..Len(retriever_results) :
                \E j \in 1..Len(document_store) :
                   /\ retriever_results[i].content = document_store[j].content
                   /\ retriever_results[i].score
                         = Similarity(query_embedding,
                                      document_store[j].embedding)

C3_Witness ==
    /\ Finished
    /\ trace = <<"primary_search", "embed_query", "fetch",
                 "embed_statements", "retrieve", "prompt", "llm">>
    /\ Len(retriever_results) > 0

\* C4: the document set searched by the fallback retriever in a call holds
\* only statements fetched during that call; statements fetched in an
\* earlier call never appear among the documents of a later call, and a
\* call starts without documents.
C4_FreshDocuments ==
    /\ Occurs("embed_statements") =>
          /\ Len(document_store) = Len(wikidata_statements)
          /\ \A i \in 1..Len(document_store) :
                /\ document_store[i].fetched_in = calls
                /\ document_store[i].content = wikidata_statements[i].text
    /\ \A s \in fetched_log :
          s.fetched_in < calls =>
             /\ \A j \in 1..Len(document_store) :
                   document_store[j].fetched_in # s.fetched_in
             /\ \A j \in 1..Len(retriever_results) :
                   retriever_results[j].fetched_in # s.fetched_in
    /\ pc = "search" => (document_store = <<>> /\ retriever_results = <<>>)

C4_Witness ==
    /\ Finished
    /\ calls = 2
    /\ Count("retrieve") = 1
    /\ Len(retriever_results) > 0
    /\ \E s \in fetched_log :
          /\ s.fetched_in = 1
          /\ \E j \in 1..Len(retriever_results) :
                retriever_results[j].content = s.text

\* C5: when process_query returns, the returned value is the answer built
\* from the first reply of the language model and its documents are exactly
\* the retrieved documents rendered into the prompt the model received; the
\* model is invoked only after retrieval has finished and the prompt has
\* been built.
C5_AnswerFromFirstReplyAndPromptDocuments ==
    /\ Finished =>
          /\ returned.data = response[1]
          /\ returned.query = query
          /\ returned.documents = llm_input.documents
          /\ llm_input.documents = retriever_results
          /\ llm_input.question = query
          /\ (primary_outcome = "ok" /\ Len(results) > 0) =>
                SameAsPrimary(returned.documents)
          /\ ~(primary_outcome = "ok" /\ Len(results) > 0) =>
                /\ Count("retrieve") = 1
                /\ \A i \in 1..Len(returned.documents) :
                      returned.documents[i].fetched_in = calls
    /\ Occurs("llm") =>
          /\ Occurs("prompt") /\ Pos("prompt") < Pos("llm")
          /\ llm_input = prompt
    /\ \A j \in 1..Len(trace) :
          trace[j] \in {"prompt", "llm"} =>
             \A i \in j + 1..Len(trace) : trace[i] \notin RetrievalEvents

C5_Witness ==
    /\ Finished
    /\ Len(response) = 2
    /\ response[1] # response[2]
    /\ Len(returned.documents) > 0
    /\ Count("retrieve") = 1

\* C6: one call invokes the primary search exactly once, the fetcher, the
\* local retriever and the language model at most once each; nothing is
\* retried, and the primary search is not attempted after the fallback.
C6_LinearControlFlow ==
    /\ (pc \notin {"idle", "search"}) => Count("primary_search") = 1
    /\ Count("primary_search") <= 1
    /\ \A i \in 1..Len(trace) :
          \A j \in i + 1..Len(trace) : trace[i] # trace[j]
    /\ Finished => (Count("llm") = 1 /\ Count("prompt") = 1)
    /\ \A i \in 1..Len(trace) :
          trace[i] \in FallbackEvents =>
             \A j \in i + 1..Len(trace) : trace[j] # "primary_search"

C6_Witness ==
    /\ Finished
    /\ FallbackRan
    /\ Count("primary_search") = 1
    /\ Len(retriever_results) = 0

\* C7: with collaborators that return at most the number of documents they
\* are asked for, the documents retrieved, rendered into the prompt and
\* attached to the answer never exceed top_k.
C7_AtMostTopK ==
    /\ Len(results) <= top_k
    /\ Len(retriever_results) <= top_k
    /\ Len(prompt.documents) <= top_k
    /\ Len(llm_input.documents) <= top_k
    /\ Len(returned.documents) <= top_k

C7_Witness ==
    /\ Finished
    /\ Count("retrieve") = 1
    /\ Len(document_store) > top_k
    /\ Len(returned.documents) = top_k

\* C8: an exception in the primary stage (in the search or while converting
\* a result) leaves the retrieved-documents list empty, keeps no partially
\* converted primary result, and the call goes on through the fallback
\* path to its return.
C8_PrimaryExceptionDiscardsAndFallsBack ==
    PrimaryFailed =>
        /\ pc \in {"branch", "embed_query", "fetch", "setup", "retrieve",
                   "prompt", "llm", "answer", "return", "returned"}
        /\ pc \in {"branch", "embed_query", "fetch", "setup", "retrieve"}
              => retriever_results = <<>>
        /\ \A i \in 1..Len(retriever_results) :
              retriever_results[i].fetched_in # 0
        /\ pc \in {"prompt", "llm", "answer", "return", "returned"}
              => FallbackRan
        /\ Finished => \A i \in 1..Len(returned.documents) :
                          returned.documents[i].fetched_in = calls

C8_Witness ==
    /\ Finished
    /\ primary_outcome = "convert_error"
    /\ Len(results) = 2
    /\ HasKey(results[1][1].metadata, "QID")
    /\ Len(returned.documents) > 0

FallbackYieldedNothing == Count("retrieve") = 1 /\ Len(retriever_results) = 0

\* C9: when the fallback path yields zero documents the call goes on: the
\* prompt is built with an empty document list, the language model is
\* invoked once, no other source is tried, and the returned answer has an
\* empty source-document list.
C9_EmptyFallbackStillAnswers ==
    FallbackYieldedNothing =>
        /\ pc \in {"prompt", "llm", "answer", "return", "returned"}
        /\ Count("primary_search") = 1 /\ Count("fetch") = 1
        /\ PastPrompt => (Count("prompt") = 1 /\ prompt.documents = <<>>)
        /\ PastLLM => (Count("llm") = 1 /\ llm_input.documents = <<>>)
        /\ Finished =>
              /\ returned # NoAnswer
              /\ returned.data = response[1]
              /\ returned.documents = <<>>

C9_Witness ==
    /\ Finished
    /\ FallbackYieldedNothing
    /\ Len(wikidata_statements) = 0
    /\ primary_outcome = "ok"
    /\ returned.documents = <<>>

====
